---- MODULE Spec2Model ----
(***************************************************************************)
(* A model of the general purpose FSM library (src/fsm.go): Define builds  *)
(* the state table from a list of states, Spin drives the machine through  *)
(* a chain of outcomes while holding the machine's mutex.                  *)
(***************************************************************************)
EXTENDS Integers, Sequences, FiniteSets, TLC

\* ------------------------------------------------------------------ bounds
\* longest list of states handed to Define in the execution model
MaxStates == 2
\* longest list of states handed to Define in the Define-only model
MaxDefs == 4
\* number of Spin calls issued in one behaviour
MaxCalls == 2
\* number of external writes to the cursor in one behaviour
MaxTamper == 1
\* number of Spin calls issued one after another in the walk model
MaxWalk == 6

\* ------------------------------------------------------------------ data
NO_INPUT == -1

test_input_1 == 0
test_input_2 == 1
test_input_3 == 2

test_state_1 == 0
test_state_2 == 1
test_state_3 == 2

\* the inputs a caller can pass to Spin or an action can return
Inputs == {test_input_1, test_input_2}
SpinInputs == Inputs \cup {NO_INPUT}

\* the state identifiers used as Index and as outcome targets
StateIds == {test_state_1, test_state_2, test_state_3}

\* the goroutines calling Spin
Callers == {"g1", "g2"}

\* An Action is a function from a context to a context and the next input.
\* A context is the sequence of marks left by the actions that ran on it.
\* "NO_ACTION" is the library's; the others are closures as in TestChain:
\* each leaves its mark and returns a fixed input.
\* "respin" is an action that calls Spin on the machine it runs in.
Actions == {"NO_ACTION", "emit1", "emit2", "emitNone", "respin"}

\* NO_ACTION as it would be if it left its mark on the context
NoActionMarksContext(ctx) == <<Append(ctx, "NO_ACTION"), NO_INPUT>>

NO_ACTION(ctx) == <<ctx, NO_INPUT>>

ApplyAction(a, ctx) ==
    CASE a = "NO_ACTION" -> NO_ACTION(ctx)
      [] a = "emit1"     -> <<Append(ctx, a), test_input_1>>
      [] a = "emit2"     -> <<Append(ctx, a), test_input_2>>
      [] a = "emitNone"  -> <<Append(ctx, a), NO_INPUT>>

Outcome(s, a) == [State |-> s, Action |-> a]

\* TestChain's state1: input 1 chains into input 2, input 2 ends the chain
ChainOutcomes1 ==
    (test_input_1 :> Outcome(test_state_2, "emit2")) @@
    (test_input_2 :> Outcome(test_state_3, "emitNone"))

\* TestChain's state2: input 2 goes back to state 1 and chains input 2
ChainOutcomes2 ==
    (test_input_1 :> Outcome(test_state_1, "NO_ACTION")) @@
    (test_input_2 :> Outcome(test_state_1, "emit2"))

\* a state that does not accept input 2 and has an entry keyed NO_INPUT
PartialOutcomes ==
    (test_input_1 :> Outcome(test_state_2, "NO_ACTION")) @@
    (NO_INPUT :> Outcome(test_state_3, "emit1"))

\* a state whose input 2 runs an action that calls Spin again
ReentrantOutcomes ==
    (test_input_2 :> Outcome(test_state_1, "respin"))

\* The outcome maps a state of the model can carry (map[Input]Outcome).
OutcomePool == {ChainOutcomes1, ChainOutcomes2, PartialOutcomes}

\* type State struct
States == [Index : StateIds, Outcomes : OutcomePool]

\* the lists of at most n states
RECURSIVE StateLists(_)
StateLists(n) ==
    IF n = 0 THEN {<<>>}
    ELSE LET shorter == StateLists(n - 1)
         IN  shorter \cup { Append(l, s) : l \in {x \in shorter : Len(x) = n - 1}, s \in States }

\* errors
NoError == [type |-> "nil"]
ImpossibleStateError(s) == [type |-> "ImpossibleStateError", state |-> s]
InvalidInputError(s, i) == [type |-> "InvalidInputError", StateIndex |-> s, Input |-> i]
ClashingStateError(s) == [type |-> "ClashingStateError", state |-> s]

\* ------------------------------------------------------------------ Define
\* DefineLoop as it would be if it ranged over the list from its end
RECURSIVE DefineLoopBackward(_, _, _)
DefineLoopBackward(list, k, stateMap) ==
    IF k > Len(list) THEN [ok |-> TRUE, stateMap |-> stateMap]
    ELSE LET s == list[Len(list) + 1 - k]
         IN  IF s.Index \in DOMAIN stateMap
             THEN [ok |-> FALSE, err |-> ClashingStateError(s.Index)]
             ELSE DefineLoopBackward(list, k + 1, (s.Index :> s) @@ stateMap)

\* the loop of Define over the list: the table built so far, or the clash
RECURSIVE DefineLoop(_, _, _)
DefineLoop(list, k, stateMap) ==
    IF k > Len(list) THEN [ok |-> TRUE, stateMap |-> stateMap]
    ELSE IF list[k].Index \in DOMAIN stateMap
         THEN [ok |-> FALSE, err |-> ClashingStateError(list[k].Index)]
         ELSE DefineLoop(list, k + 1, (list[k].Index :> list[k]) @@ stateMap)

EmptyMap == [x \in {} |-> x]

\* ------------------------------------------------------------------ state
VARIABLES
    defs,       \* the list of states handed to Define
    machine,    \* "none" before Define, then "ok", "clash" or "panic"
    defErr,     \* the error Define returned
    states,     \* FSM.states
    current,    \* FSM.current
    locked,     \* FSM.Mutex
    pc,         \* where each caller is in Spin
    callId,     \* the number of the call each caller is in, in lock order
    in,         \* Spin's parameter in
    i,          \* Spin's loop variable
    ctx,        \* Spin's ctx
    do,         \* the outcome matched in this iteration
    n,          \* iterations completed by the call
    log,        \* history: every call, lock, action, assignment and return
    calls,      \* Spin calls issued so far
    tampers     \* external writes to the cursor so far

vars == <<defs, machine, defErr, states, current, locked, pc, callId, in, i,
          ctx, do, n, log, calls, tampers>>

spinVars == <<pc, callId, in, i, ctx, do, n, log, calls>>

NoOutcome == Outcome(test_state_1, "NO_ACTION")

\* the longest chain a call may run in the model: a chain that repeats no
\* (state, input) pair of the table is never longer
ChainCap == Cardinality(DOMAIN states) * Cardinality(Inputs)

InitWith(lists) ==
    /\ defs \in lists
    /\ machine = "none"
    /\ defErr = NoError
    /\ states = EmptyMap
    /\ current = test_state_1
    /\ locked = FALSE
    /\ pc = [c \in Callers |-> "idle"]
    /\ callId = [c \in Callers |-> 0]
    /\ in = [c \in Callers |-> NO_INPUT]
    /\ i = [c \in Callers |-> NO_INPUT]
    /\ ctx = [c \in Callers |-> <<>>]
    /\ do = [c \in Callers |-> NoOutcome]
    /\ n = [c \in Callers |-> 0]
    /\ log = <<>>
    /\ calls = 0
    /\ tampers = 0

Init == InitWith(StateLists(MaxStates))

InitDefine == InitWith(StateLists(MaxDefs))

\* Define as it would be if the cursor started at the last state of the list
DefineStartsAtLast ==
    /\ machine = "none"
    /\ LET r == DefineLoop(defs, 1, EmptyMap)
       IN  IF ~r.ok
           THEN /\ machine' = "clash"
                /\ defErr' = r.err
                /\ UNCHANGED <<states, current>>
           ELSE IF Len(defs) = 0
                THEN /\ machine' = "panic"
                     /\ UNCHANGED <<defErr, states, current>>
                ELSE /\ machine' = "ok"
                     /\ states' = r.stateMap
                     /\ current' = defs[Len(defs)].Index
                     /\ UNCHANGED defErr
    /\ UNCHANGED <<defs, locked, tampers>>
    /\ UNCHANGED spinVars

\* Define as it would be if it refused a table with an outcome whose target
\* is not among the defined states
DefineChecksTargets ==
    /\ machine = "none"
    /\ LET r == DefineLoop(defs, 1, EmptyMap)
           dangling == {k \in 1..Len(defs) :
                           \E inp \in DOMAIN defs[k].Outcomes :
                               defs[k].Outcomes[inp].State \notin DOMAIN r.stateMap}
       IN  IF ~r.ok
           THEN /\ machine' = "clash"
                /\ defErr' = r.err
                /\ UNCHANGED <<states, current>>
           ELSE IF Len(defs) = 0
                THEN /\ machine' = "panic"
                     /\ UNCHANGED <<defErr, states, current>>
                ELSE IF dangling # {}
                     THEN /\ machine' = "clash"
                          /\ defErr' = ClashingStateError(defs[CHOOSE k \in dangling : TRUE].Index)
                          /\ UNCHANGED <<states, current>>
                     ELSE /\ machine' = "ok"
                          /\ states' = r.stateMap
                          /\ current' = defs[1].Index
                          /\ UNCHANGED defErr
    /\ UNCHANGED <<defs, locked, tampers>>
    /\ UNCHANGED spinVars

\* Define as it would be if an empty list gave a machine with an empty table
DefineEmptyMachine ==
    /\ machine = "none"
    /\ LET r == DefineLoop(defs, 1, EmptyMap)
       IN  IF ~r.ok
           THEN /\ machine' = "clash"
                /\ defErr' = r.err
                /\ UNCHANGED <<states, current>>
           ELSE /\ machine' = "ok"
                /\ states' = r.stateMap
                /\ current' = IF Len(defs) = 0 THEN current ELSE defs[1].Index
                /\ UNCHANGED defErr
    /\ UNCHANGED <<defs, locked, tampers>>
    /\ UNCHANGED spinVars

\* Define(states ...State)
Define ==
    /\ machine = "none"
    /\ LET r == DefineLoop(defs, 1, EmptyMap)
       IN  IF ~r.ok
           THEN /\ machine' = "clash"
                /\ defErr' = r.err
                /\ UNCHANGED <<states, current>>
           ELSE IF Len(defs) = 0
                THEN \* states[0] of an empty slice: index out of range
                     /\ machine' = "panic"
                     /\ UNCHANGED <<defErr, states, current>>
                ELSE /\ machine' = "ok"
                     /\ states' = r.stateMap
                     /\ current' = defs[1].Index
                     /\ UNCHANGED defErr
    /\ UNCHANGED <<defs, locked, tampers>>
    /\ UNCHANGED spinVars

\* ------------------------------------------------------------------ Spin
\* a goroutine calls f.Spin(ctx, input) with a fresh context
Call(c, input) ==
    /\ machine = "ok"
    /\ pc[c] = "idle"
    /\ calls < MaxCalls
    /\ calls' = calls + 1
    /\ in' = [in EXCEPT ![c] = input]
    /\ ctx' = [ctx EXCEPT ![c] = <<>>]
    /\ n' = [n EXCEPT ![c] = 0]
    /\ pc' = [pc EXCEPT ![c] = "lock"]
    /\ UNCHANGED <<defs, machine, defErr, states, current, locked, callId, i, do, log, tampers>>

\* calls are numbered in the order in which they take the lock
NextCallId == Cardinality({k \in 1..Len(log) : log[k].kind = "lock"}) + 1

\* Lock as it would be without the mutex: the caller enters at once
LockWithoutMutex(c) ==
    /\ pc[c] = "lock"
    /\ locked' = TRUE
    /\ i' = [i EXCEPT ![c] = in[c]]
    /\ pc' = [pc EXCEPT ![c] = "loop"]
    /\ callId' = [callId EXCEPT ![c] = NextCallId]
    /\ log' = Append(log, [kind |-> "lock", call |-> NextCallId, caller |-> c,
                           input |-> in[c], ctx |-> ctx[c], cur |-> current])
    /\ UNCHANGED <<defs, machine, defErr, states, current, in, ctx, do, n, calls, tampers>>

\* f.Lock(); for i := in
Lock(c) ==
    /\ pc[c] = "lock"
    /\ ~locked
    /\ locked' = TRUE
    /\ i' = [i EXCEPT ![c] = in[c]]
    /\ pc' = [pc EXCEPT ![c] = "loop"]
    /\ callId' = [callId EXCEPT ![c] = NextCallId]
    /\ log' = Append(log, [kind |-> "lock", call |-> NextCallId, caller |-> c,
                           input |-> in[c], ctx |-> ctx[c], cur |-> current])
    /\ UNCHANGED <<defs, machine, defErr, states, current, in, ctx, do, n, calls, tampers>>

\* Return as it would be without the deferred f.Unlock()
ReturnLocked(c, err) ==
    /\ locked' = locked
    /\ pc' = [pc EXCEPT ![c] = "idle"]
    /\ log' = Append(log, [kind |-> "ret", call |-> callId[c], err |-> err,
                           ctx |-> ctx[c], cur |-> current])
    /\ UNCHANGED <<defs, machine, defErr, states, current, callId, in, i, ctx, do, n, calls, tampers>>

\* return ctx, err with the deferred f.Unlock()
Return(c, err) ==
    /\ locked' = FALSE
    /\ pc' = [pc EXCEPT ![c] = "idle"]
    /\ log' = Append(log, [kind |-> "ret", call |-> callId[c], err |-> err,
                           ctx |-> ctx[c], cur |-> current])
    /\ UNCHANGED <<defs, machine, defErr, states, current, callId, in, i, ctx, do, n, calls, tampers>>

\* LoopExit as it would be if the loop gave up after a number of steps
LoopExitAtStepLimit(c) ==
    /\ pc[c] = "loop"
    /\ i[c] = NO_INPUT \/ n[c] >= ChainCap
    /\ Return(c, NoError)

\* LoopExit as it would be if the loop ran one iteration only
LoopExitAfterOne(c) ==
    /\ pc[c] = "loop"
    /\ i[c] = NO_INPUT \/ n[c] >= 1
    /\ Return(c, NoError)

\* i == NO_INPUT: the loop ends, return ctx, nil
LoopExit(c) ==
    /\ pc[c] = "loop"
    /\ i[c] = NO_INPUT
    /\ Return(c, NoError)

\* ImpossibleState as it would be if the error carried the input
ImpossibleStateReportsInput(c) ==
    /\ pc[c] = "loop"
    /\ i[c] # NO_INPUT
    /\ current \notin DOMAIN states
    /\ Return(c, ImpossibleStateError(i[c]))

\* ImpossibleState as it would be if the state were looked up before the
\* loop condition is tested
ImpossibleStateBeforeSentinel(c) ==
    /\ pc[c] = "loop"
    /\ current \notin DOMAIN states
    /\ Return(c, ImpossibleStateError(current))

\* s, ok := f.states[f.current]; !ok
ImpossibleState(c) ==
    /\ pc[c] = "loop"
    /\ i[c] # NO_INPUT
    /\ current \notin DOMAIN states
    /\ Return(c, ImpossibleStateError(current))

\* InvalidInput as it would be with the fields of the error swapped
InvalidInputSwapped(c) ==
    /\ pc[c] = "loop"
    /\ i[c] # NO_INPUT
    /\ current \in DOMAIN states
    /\ i[c] \notin DOMAIN states[current].Outcomes
    /\ Return(c, InvalidInputError(i[c], current))

\* InvalidInput as it would be if the error carried Spin's parameter in
InvalidInputOriginal(c) ==
    /\ pc[c] = "loop"
    /\ i[c] # NO_INPUT
    /\ current \in DOMAIN states
    /\ i[c] \notin DOMAIN states[current].Outcomes
    /\ Return(c, InvalidInputError(current, in[c]))

\* do, ok := s.Outcomes[i]; !ok
InvalidInput(c) ==
    /\ pc[c] = "loop"
    /\ i[c] # NO_INPUT
    /\ current \in DOMAIN states
    /\ i[c] \notin DOMAIN states[current].Outcomes
    /\ Return(c, InvalidInputError(current, i[c]))

\* Act as it would be if the loop went on without moving the cursor
ActWithoutAssign(c) ==
    /\ pc[c] = "loop"
    /\ i[c] # NO_INPUT
    /\ current \in DOMAIN states
    /\ i[c] \in DOMAIN states[current].Outcomes
    /\ n[c] < ChainCap
    /\ LET out == states[current].Outcomes[i[c]]
           r == ApplyAction(out.Action, ctx[c])
       IN  /\ do' = [do EXCEPT ![c] = out]
           /\ ctx' = [ctx EXCEPT ![c] = r[1]]
           /\ i' = [i EXCEPT ![c] = r[2]]
           /\ log' = Append(log, [kind |-> "act", call |-> callId[c], cur |-> current,
                                  input |-> i[c], outcome |-> out])
    /\ n' = [n EXCEPT ![c] = n[c] + 1]
    /\ UNCHANGED <<defs, machine, defErr, states, current, locked, pc, callId, in, calls, tampers>>

\* Act as it would be if the cursor moved before the action ran
ActMovesCursorFirst(c) ==
    /\ pc[c] = "loop"
    /\ i[c] # NO_INPUT
    /\ current \in DOMAIN states
    /\ i[c] \in DOMAIN states[current].Outcomes
    /\ states[current].Outcomes[i[c]].Action # "respin"
    /\ n[c] < ChainCap
    /\ LET out == states[current].Outcomes[i[c]]
           r == ApplyAction(out.Action, ctx[c])
       IN  /\ do' = [do EXCEPT ![c] = out]
           /\ current' = out.State
           /\ ctx' = [ctx EXCEPT ![c] = r[1]]
           /\ i' = [i EXCEPT ![c] = r[2]]
           /\ log' = Append(log, [kind |-> "act", call |-> callId[c], cur |-> current',
                                  input |-> i[c], outcome |-> out])
    /\ pc' = [pc EXCEPT ![c] = "assign"]
    /\ UNCHANGED <<defs, machine, defErr, states, locked, callId, in, n, calls, tampers>>

\* both lookups succeed: ctx, i = do.Action(ctx)
Act(c) ==
    /\ pc[c] = "loop"
    /\ i[c] # NO_INPUT
    /\ current \in DOMAIN states
    /\ i[c] \in DOMAIN states[current].Outcomes
    /\ states[current].Outcomes[i[c]].Action # "respin"
    /\ n[c] < ChainCap
    /\ LET out == states[current].Outcomes[i[c]]
           r == ApplyAction(out.Action, ctx[c])
       IN  /\ do' = [do EXCEPT ![c] = out]
           /\ ctx' = [ctx EXCEPT ![c] = r[1]]
           /\ i' = [i EXCEPT ![c] = r[2]]
           /\ log' = Append(log, [kind |-> "act", call |-> callId[c], cur |-> current,
                                  input |-> i[c], outcome |-> out])
    /\ pc' = [pc EXCEPT ![c] = "assign"]
    /\ UNCHANGED <<defs, machine, defErr, states, current, locked, callId, in, n, calls, tampers>>

\* both lookups succeed and do.Action calls f.Spin(ctx, test_input_1) on the
\* same machine: the goroutine, still holding the mutex, is at f.Lock() again
Reenter(c) ==
    /\ pc[c] = "loop"
    /\ i[c] # NO_INPUT
    /\ current \in DOMAIN states
    /\ i[c] \in DOMAIN states[current].Outcomes
    /\ states[current].Outcomes[i[c]].Action = "respin"
    /\ n[c] < ChainCap
    /\ do' = [do EXCEPT ![c] = states[current].Outcomes[i[c]]]
    /\ in' = [in EXCEPT ![c] = test_input_1]
    /\ pc' = [pc EXCEPT ![c] = "lock"]
    /\ log' = Append(log, [kind |-> "reenter", call |-> callId[c], cur |-> current,
                           input |-> i[c], outcome |-> states[current].Outcomes[i[c]]])
    /\ UNCHANGED <<defs, machine, defErr, states, current, locked, callId, i, ctx, n, calls, tampers>>

\* Assign as it would be if the loop forgot to move the cursor
AssignKeepsCursor(c) ==
    /\ pc[c] = "assign"
    /\ current' = current
    /\ n' = [n EXCEPT ![c] = n[c] + 1]
    /\ pc' = [pc EXCEPT ![c] = "loop"]
    /\ log' = Append(log, [kind |-> "set", call |-> callId[c], cur |-> current])
    /\ UNCHANGED <<defs, machine, defErr, states, locked, callId, in, i, ctx, do, calls>>
    /\ UNCHANGED tampers

\* Assign as it would be if leaving a state also removed it from the table
AssignDropsSource(c) ==
    /\ pc[c] = "assign"
    /\ current' = do[c].State
    /\ states' = [s \in DOMAIN states \ {current} |-> states[s]]
    /\ n' = [n EXCEPT ![c] = n[c] + 1]
    /\ pc' = [pc EXCEPT ![c] = "loop"]
    /\ log' = Append(log, [kind |-> "set", call |-> callId[c], cur |-> do[c].State])
    /\ UNCHANGED <<defs, machine, defErr, locked, callId, in, i, ctx, do, calls>>
    /\ UNCHANGED tampers

\* Assign as it would be if it moved the cursor one state too far
AssignOffByOne(c) ==
    /\ pc[c] = "assign"
    /\ current' = do[c].State + 1
    /\ n' = [n EXCEPT ![c] = n[c] + 1]
    /\ pc' = [pc EXCEPT ![c] = "loop"]
    /\ log' = Append(log, [kind |-> "set", call |-> callId[c], cur |-> do[c].State + 1])
    /\ UNCHANGED <<defs, machine, defErr, states, locked, callId, in, i, ctx, do, calls>>
    /\ UNCHANGED tampers

\* f.current = do.State
Assign(c) ==
    /\ pc[c] = "assign"
    /\ current' = do[c].State
    /\ n' = [n EXCEPT ![c] = n[c] + 1]
    /\ pc' = [pc EXCEPT ![c] = "loop"]
    /\ log' = Append(log, [kind |-> "set", call |-> callId[c], cur |-> do[c].State])
    /\ UNCHANGED <<defs, machine, defErr, states, locked, callId, in, i, ctx, do, calls>>
    /\ UNCHANGED tampers

\* code outside the library puts the machine in an impossible state while
\* no Spin is running (TestImpossibleState: fsm.current = test_state_3)
Tamper(s) ==
    /\ machine = "ok"
    /\ \A c \in Callers : pc[c] = "idle"
    /\ s \notin DOMAIN states
    /\ tampers < MaxTamper
    /\ tampers' = tampers + 1
    /\ current' = s
    /\ UNCHANGED <<defs, machine, defErr, states, locked, pc, callId, in, i, ctx, do, n, log, calls>>

Next ==
    \/ Define
    \/ \E c \in Callers, input \in SpinInputs : Call(c, input)
    \/ \E c \in Callers : Lock(c)
    \/ \E c \in Callers : LoopExit(c)
    \/ \E c \in Callers : ImpossibleState(c)
    \/ \E c \in Callers : InvalidInput(c)
    \/ \E c \in Callers : Act(c)
    \/ \E c \in Callers : Assign(c)

\* Define and Spin calls alone
Spec == Init /\ [][Next]_vars

\* a goroutine inside Spin keeps running, and a free mutex is handed to a waiter
SpinStep(c) == Lock(c) \/ LoopExit(c) \/ ImpossibleState(c) \/ InvalidInput(c) \/ Act(c) \/ Assign(c)

FairSpec == Spec /\ \A c \in Callers : WF_vars(SpinStep(c))

NextTamper ==
    \/ Next
    \/ \E s \in StateIds : Tamper(s)

\* Define, Spin calls and external writes to the cursor
SpecTamper == Init /\ [][NextTamper]_vars

\* TestStates' table: three states that accept the three inputs, NO_ACTION only
TestStatesDefs ==
    <<[Index |-> test_state_1,
       Outcomes |-> (test_input_1 :> Outcome(test_state_2, "NO_ACTION")) @@
                    (test_input_2 :> Outcome(test_state_3, "NO_ACTION")) @@
                    (test_input_3 :> Outcome(test_state_1, "NO_ACTION"))],
      [Index |-> test_state_2,
       Outcomes |-> (test_input_1 :> Outcome(test_state_1, "NO_ACTION")) @@
                    (test_input_2 :> Outcome(test_state_1, "NO_ACTION")) @@
                    (test_input_3 :> Outcome(test_state_1, "NO_ACTION"))],
      [Index |-> test_state_3,
       Outcomes |-> (test_input_1 :> Outcome(test_state_2, "NO_ACTION")) @@
                    (test_input_2 :> Outcome(test_state_1, "NO_ACTION")) @@
                    (test_input_3 :> Outcome(test_state_1, "NO_ACTION"))]>>

\* TestInvalidInput's table: two states that accept inputs 1 and 2, state 3 undefined
TestInvalidInputDefs ==
    <<[Index |-> test_state_1,
       Outcomes |-> (test_input_1 :> Outcome(test_state_2, "NO_ACTION")) @@
                    (test_input_2 :> Outcome(test_state_3, "NO_ACTION"))],
      [Index |-> test_state_2,
       Outcomes |-> (test_input_1 :> Outcome(test_state_1, "NO_ACTION")) @@
                    (test_input_2 :> Outcome(test_state_1, "NO_ACTION"))]>>

\* a NO_ACTION table whose first state has an entry keyed NO_INPUT
SentinelKeyDefs ==
    <<[Index |-> test_state_1,
       Outcomes |-> (test_input_1 :> Outcome(test_state_2, "NO_ACTION")) @@
                    (NO_INPUT :> Outcome(test_state_2, "NO_ACTION"))],
      [Index |-> test_state_2,
       Outcomes |-> (test_input_1 :> Outcome(test_state_1, "NO_ACTION"))]>>

WalkDefs == {TestStatesDefs, TestInvalidInputDefs, SentinelKeyDefs}

WalkInputs == {test_input_1, test_input_2, test_input_3, NO_INPUT}

\* the test's goroutine
WalkCallers == {"g1"}

InitWalk == InitWith(WalkDefs)

\* assertState: the test calls fsm.Spin(ctx, i), one call after another
CallWalk(c, input) ==
    /\ machine = "ok"
    /\ pc[c] = "idle"
    /\ calls < MaxWalk
    /\ calls' = calls + 1
    /\ in' = [in EXCEPT ![c] = input]
    /\ ctx' = [ctx EXCEPT ![c] = <<>>]
    /\ n' = [n EXCEPT ![c] = 0]
    /\ pc' = [pc EXCEPT ![c] = "lock"]
    /\ UNCHANGED <<defs, machine, defErr, states, current, locked, callId, i, do, log, tampers>>

NextWalk ==
    \/ Define
    \/ \E c \in WalkCallers, input \in WalkInputs : CallWalk(c, input)
    \/ \E c \in WalkCallers : Lock(c)
    \/ \E c \in WalkCallers : LoopExit(c)
    \/ \E c \in WalkCallers : ImpossibleState(c)
    \/ \E c \in WalkCallers : InvalidInput(c)
    \/ \E c \in WalkCallers : Act(c)
    \/ \E c \in WalkCallers : Assign(c)

\* one goroutine spinning NO_ACTION tables, as TestStates does
SpecWalk == InitWalk /\ [][NextWalk]_vars

\* the states of the reentrant model
ReentrantStates == [Index : StateIds, Outcomes : {ChainOutcomes1, ReentrantOutcomes}]

RECURSIVE ReentrantLists(_)
ReentrantLists(k) ==
    IF k = 0 THEN {<<>>}
    ELSE LET shorter == ReentrantLists(k - 1)
         IN  shorter \cup { Append(l, s) : l \in {x \in shorter : Len(x) = k - 1},
                                           s \in ReentrantStates }

InitReentrant == InitWith(ReentrantLists(MaxStates))

NextReentrant ==
    \/ Next
    \/ \E c \in Callers : Reenter(c)

\* Define and Spin calls on tables with an action that calls Spin
SpecReentrant == InitReentrant /\ [][NextReentrant]_vars

\* the contexts a caller passes to Spin in the context model
ContextsIn == {<<>>, <<"emit2">>, <<"emit2", "emitNone">>}

ContextCallers == {"g1"}

\* a goroutine calls f.Spin(ctx0, input)
CallCtx(c, input, ctx0) ==
    /\ machine = "ok"
    /\ pc[c] = "idle"
    /\ calls < MaxCalls
    /\ calls' = calls + 1
    /\ in' = [in EXCEPT ![c] = input]
    /\ ctx' = [ctx EXCEPT ![c] = ctx0]
    /\ n' = [n EXCEPT ![c] = 0]
    /\ pc' = [pc EXCEPT ![c] = "lock"]
    /\ UNCHANGED <<defs, machine, defErr, states, current, locked, callId, i, do, log, tampers>>

NextContext ==
    \/ Define
    \/ \E c \in ContextCallers, input \in SpinInputs, ctx0 \in ContextsIn : CallCtx(c, input, ctx0)
    \/ \E c \in ContextCallers : Lock(c)
    \/ \E c \in ContextCallers : LoopExit(c)
    \/ \E c \in ContextCallers : ImpossibleState(c)
    \/ \E c \in ContextCallers : InvalidInput(c)
    \/ \E c \in ContextCallers : Act(c)
    \/ \E c \in ContextCallers : Assign(c)

\* one goroutine spinning with contexts that already carry marks
SpecContext == Init /\ [][NextContext]_vars

NextDefine == Define

\* Define alone, over longer lists
SpecDefine == InitDefine /\ [][NextDefine]_vars

\* ------------------------------------------------------------------ history
LogIdx == 1..Len(log)

\* the positions of the events of one kind that belong to call id
EventsOf(id, kind) == {k \in LogIdx : log[k].call = id /\ log[k].kind = kind}

HasLock(id) == EventsOf(id, "lock") # {}
HasRet(id) == EventsOf(id, "ret") # {}
LockOf(id) == log[CHOOSE k \in EventsOf(id, "lock") : TRUE]
RetOf(id) == log[CHOOSE k \in EventsOf(id, "ret") : TRUE]

\* the action invocations of call id, in order
ActsOf(id) == SelectSeq(log, LAMBDA e : e.call = id /\ e.kind = "act")

CallIds == 1..MaxCalls

\* the input an action returns, whatever the context
NextInput(a) == ApplyAction(a, <<>>)[2]

\* The outcome chain from cursor cur on input inp in table tbl, followed for
\* at most fuel steps: where it ends, how many outcomes it applies, and
\* whether it reaches NO_INPUT with every lookup succeeding.
RECURSIVE Follow(_, _, _, _)
Follow(tbl, cur, inp, fuel) ==
    IF inp = NO_INPUT THEN [ok |-> TRUE, cur |-> cur, len |-> 0]
    ELSE IF fuel = 0 \/ cur \notin DOMAIN tbl THEN [ok |-> FALSE, cur |-> cur, len |-> 0]
    ELSE IF inp \notin DOMAIN tbl[cur].Outcomes THEN [ok |-> FALSE, cur |-> cur, len |-> 0]
    ELSE LET out == tbl[cur].Outcomes[inp]
             rest == Follow(tbl, out.State, NextInput(out.Action), fuel - 1)
         IN  [ok |-> rest.ok, cur |-> rest.cur, len |-> rest.len + 1]

\* a chain that repeats no (state, input) pair has at most this many steps
Fuel(tbl) == Cardinality(DOMAIN tbl) * Cardinality(Inputs)

\* the chain of call id, from the cursor it found when it took the lock
ChainOf(id) == Follow(states, LockOf(id).cur, LockOf(id).input, Fuel(states))

\* ------------------------------------------------------------------ C1
\* C1: a Spin call whose outcome chain reaches NO_INPUT with every lookup
\* succeeding and without a cycle returns, with a nil error, and leaves the
\* cursor at the state the chain leads to from the cursor the call found.
C1_SpinTerminatesAtChainEnd ==
    \A id \in CallIds :
        (HasLock(id) /\ ChainOf(id).ok)
            ~> (/\ HasRet(id)
                /\ RetOf(id).err = NoError
                /\ RetOf(id).cur = ChainOf(id).cur)

\* a call that ran a chain of three outcomes has returned nil
C1_Witness ==
    \E id \in CallIds :
        /\ HasRet(id)
        /\ ChainOf(id).ok
        /\ ChainOf(id).len = 3
        /\ RetOf(id).err = NoError
        /\ RetOf(id).cur = ChainOf(id).cur
        /\ RetOf(id).cur # LockOf(id).cur

\* ------------------------------------------------------------------ C2
\* C2: the steps of one Spin call are never interleaved with another call's:
\* from a call's lock to its return every event in the history is its own,
\* and every cursor value it reads is the one its own previous step left.
C2_ChainsAreAtomic ==
    /\ \A k \in LogIdx :
          log[k].kind \in {"act", "set", "ret"} =>
              /\ k > 1
              /\ log[k - 1].call = log[k].call
              /\ log[k - 1].kind # "ret"
              /\ log[k].kind \in {"act", "ret"} => log[k].cur = log[k - 1].cur
    /\ \A k \in LogIdx :
          (log[k].kind = "lock" /\ k > 1) => log[k - 1].kind = "ret"
    /\ Cardinality({c \in Callers : pc[c] \in {"loop", "assign"}}) <= 1

\* one caller waits for the lock while the other is in the middle of a chain
C2_Witness ==
    \E c1, c2 \in Callers :
        /\ pc[c1] = "lock"
        /\ pc[c2] = "assign"
        /\ n[c2] >= 1

\* ------------------------------------------------------------------ C3
\* what a call that found the cursor outside the table must have done
ImpossibleOutcome(id) ==
    /\ ActsOf(id) = <<>>
    /\ EventsOf(id, "set") = {}
    /\ HasRet(id) =>
          /\ RetOf(id).err = ImpossibleStateError(LockOf(id).cur)
          /\ RetOf(id).cur = LockOf(id).cur

\* C3 as stated: every Spin call made while the cursor is not a key of the
\* table, whatever its input, returns ImpossibleStateError carrying the
\* cursor, invokes no action and leaves the cursor unchanged.
C3_AnyInputImpossibleState ==
    \A id \in CallIds :
        (HasRet(id) /\ LockOf(id).cur \notin DOMAIN states) => ImpossibleOutcome(id)

\* C3 amended: every Spin call with an input other than NO_INPUT made while
\* the cursor is not a key of the table returns ImpossibleStateError carrying
\* the cursor, invokes no action and leaves the cursor unchanged.
C3_ImpossibleState ==
    \A id \in CallIds :
        (/\ HasLock(id)
         /\ LockOf(id).cur \notin DOMAIN states
         /\ LockOf(id).input # NO_INPUT) => ImpossibleOutcome(id)

\* after an external write put the cursor outside the table, a call returned
\* ImpossibleStateError for an input that no state of the table accepts
C3_Witness ==
    \E id \in CallIds :
        /\ tampers = 1
        /\ HasRet(id)
        /\ LockOf(id).cur \notin DOMAIN states
        /\ \A s \in DOMAIN states : LockOf(id).input \notin DOMAIN states[s].Outcomes
        /\ LockOf(id).input # NO_INPUT
        /\ RetOf(id).err = ImpossibleStateError(current)

\* ------------------------------------------------------------------ C4
\* what a call whose input the current state does not accept must have done
InvalidOutcome(id) ==
    /\ RetOf(id).err = InvalidInputError(LockOf(id).cur, LockOf(id).input)
    /\ RetOf(id).cur = LockOf(id).cur
    /\ ActsOf(id) = <<>>

AbsentInput(id) ==
    /\ LockOf(id).cur \in DOMAIN states
    /\ LockOf(id).input \notin DOMAIN states[LockOf(id).cur].Outcomes

\* C4 as stated: every Spin call whose input is absent from the current
\* state's outcome mapping returns InvalidInputError with the current state
\* and that input, and leaves the cursor unchanged.
C4_AnyAbsentInputInvalid ==
    \A id \in CallIds : (HasRet(id) /\ AbsentInput(id)) => InvalidOutcome(id)

\* C4 amended: every Spin call whose input is not NO_INPUT and is absent
\* from the current state's outcome mapping returns InvalidInputError with
\* the current state and that input, and leaves the cursor unchanged.
C4_InvalidInput ==
    \A id \in CallIds :
        (HasRet(id) /\ AbsentInput(id) /\ LockOf(id).input # NO_INPUT) => InvalidOutcome(id)

\* a call was refused with InvalidInputError in a state other than the initial one
C4_Witness ==
    \E id \in CallIds :
        /\ HasRet(id)
        /\ AbsentInput(id)
        /\ RetOf(id).err = InvalidInputError(current, test_input_2)
        /\ current # defs[1].Index

\* ------------------------------------------------------------------ C5
\* the context after running the actions of acts[k..] on ctx0
RECURSIVE RunActions(_, _, _)
RunActions(acts, k, ctx0) ==
    IF k > Len(acts) THEN ctx0
    ELSE RunActions(acts, k + 1, ApplyAction(acts[k].outcome.Action, ctx0)[1])

\* C5: a Spin call that fails after k >= 1 outcomes were applied keeps them:
\* at return the cursor is the k-th outcome's target, the context is the one
\* the k-th action produced, and the error carries that cursor (and, for
\* InvalidInputError, the input the k-th action returned).
C5_PartialProgressKept ==
    \A id \in CallIds :
        (HasRet(id) /\ RetOf(id).err # NoError /\ Len(ActsOf(id)) >= 1) =>
            LET acts == ActsOf(id)
                last == acts[Len(acts)].outcome
                ret == RetOf(id)
            IN  /\ ChainOf(id).len = Len(acts)
                /\ ~ChainOf(id).ok
                /\ ret.cur = ChainOf(id).cur
                /\ ret.cur = last.State
                /\ ret.ctx = RunActions(acts, 1, <<>>)
                /\ \/ ret.err = ImpossibleStateError(last.State)
                   \/ ret.err = InvalidInputError(last.State, NextInput(last.Action))
                /\ ret.err.type = "ImpossibleStateError" <=> last.State \notin DOMAIN states

\* a call failed with InvalidInputError after one outcome, on an input that
\* is not the one the caller passed
C5_Witness ==
    \E id \in CallIds :
        /\ HasRet(id)
        /\ Len(ActsOf(id)) = 1
        /\ RetOf(id).err.type = "InvalidInputError"
        /\ RetOf(id).err.Input # LockOf(id).input
        /\ RetOf(id).cur # LockOf(id).cur
        /\ RetOf(id).ctx # <<>>

\* a call failed with ImpossibleStateError after two outcomes
C5_WitnessImpossible ==
    \E id \in CallIds :
        /\ HasRet(id)
        /\ Len(ActsOf(id)) = 2
        /\ RetOf(id).err.type = "ImpossibleStateError"

\* ------------------------------------------------------------------ C6
\* the positions of the list whose Index an earlier position already has
Clashes(list) ==
    {k \in 1..Len(list) : \E j \in 1..(k - 1) : list[j].Index = list[k].Index}

FirstClash(list) == CHOOSE k \in Clashes(list) : \A j \in Clashes(list) : k <= j

\* C6: Define on a list in which two states share an Index returns no
\* machine and a ClashingStateError carrying the Index of the first state in
\* list order whose Index was already seen.
C6_ClashingStates ==
    (machine # "none" /\ Clashes(defs) # {}) =>
        /\ machine = "clash"
        /\ defErr = ClashingStateError(defs[FirstClash(defs)].Index)
        /\ states = EmptyMap

\* Define refused a list of four states with two different clashes, the
\* first of them between states that are not neighbours
C6_Witness ==
    /\ machine = "clash"
    /\ Len(defs) = 4
    /\ Cardinality(Clashes(defs)) = 2
    /\ \E k \in Clashes(defs) : defs[k].Index # defs[FirstClash(defs)].Index
    /\ defs[FirstClash(defs) - 1].Index # defs[FirstClash(defs)].Index

\* ------------------------------------------------------------------ C7
\* every outcome of the table leads to a state of the table
TargetsDefined(tbl) ==
    \A s \in DOMAIN tbl : \A inp \in DOMAIN tbl[s].Outcomes :
        tbl[s].Outcomes[inp].State \in DOMAIN tbl

\* C7 as stated: after a successful Define and Spin calls alone, the cursor
\* is a key of the table.
C7_CursorAlwaysInTable ==
    machine = "ok" => current \in DOMAIN states

\* C7 amended: after a successful Define of a table in which every outcome's
\* target is a key, and Spin calls alone, the cursor is a key of the table.
C7_CursorInClosedTable ==
    (machine = "ok" /\ TargetsDefined(states)) => current \in DOMAIN states

\* in a table of two states whose outcomes all lead into the table, a call
\* has run a chain of two outcomes or more that moved the cursor
C7_Witness ==
    /\ machine = "ok"
    /\ TargetsDefined(states)
    /\ Cardinality(DOMAIN states) = 2
    /\ \E id \in CallIds :
          /\ HasRet(id)
          /\ Len(ActsOf(id)) >= 2
          /\ ActsOf(id)[1].outcome.State # LockOf(id).cur
    /\ current \in DOMAIN states

\* ------------------------------------------------------------------ C8
\* C8: every Spin call releases the lock before it returns, on the normal
\* path and on both error paths: when no caller is between Lock and its
\* return the mutex is free, and the lock is held only by a running call.
C8_LockReleasedOnReturn ==
    locked <=> (\E c \in Callers : pc[c] \in {"loop", "assign"})

\* after one call returned an error and the other returned nil, nobody holds the lock
C8_Witness ==
    /\ ~locked
    /\ \E id1, id2 \in CallIds :
          /\ HasRet(id1) /\ RetOf(id1).err.type = "InvalidInputError"
          /\ HasRet(id2) /\ RetOf(id2).err = NoError
          /\ id1 < id2
          /\ Len(ActsOf(id2)) >= 1

\* a call took the lock after an earlier call had returned ImpossibleStateError
C8_WitnessImpossible ==
    \E id1, id2 \in CallIds :
        /\ HasRet(id1) /\ RetOf(id1).err.type = "ImpossibleStateError"
        /\ id1 < id2
        /\ HasLock(id2)

\* ------------------------------------------------------------------ C9
KindIdx(kind) == {k \in LogIdx : log[k].kind = kind}

\* the sum of the chain lengths of the calls 1..id
RECURSIVE SumChainLen(_)
SumChainLen(id) ==
    IF id = 0 THEN 0 ELSE SumChainLen(id - 1) + ChainOf(id).len

\* C9: with callers interleaving their Spin calls, every cursor assignment
\* follows the invocation of its outcome's action and every invocation is
\* followed by its assignment, so assignments and invocations are equal in
\* number, and equal to the sum of the chain lengths of the calls once all
\* have returned; the cursor is the initial state or the target of the last
\* applied outcome.
C9_TransitionsCounted ==
    /\ Cardinality(KindIdx("act")) =
          Cardinality(KindIdx("set")) + Cardinality({c \in Callers : pc[c] = "assign"})
    /\ \A k \in KindIdx("set") :
          /\ k > 1
          /\ log[k - 1].kind = "act"
          /\ log[k - 1].call = log[k].call
          /\ log[k].cur = log[k - 1].outcome.State
    /\ \A k \in KindIdx("act") :
          /\ k < Len(log) => (log[k + 1].kind = "set" /\ log[k + 1].call = log[k].call)
          /\ log[k].outcome = states[log[k].cur].Outcomes[log[k].input]
    /\ \A c \in Callers :
          pc[c] \in {"loop", "assign"} => n[c] = Cardinality(EventsOf(callId[c], "set"))
    /\ (\A c \in Callers : pc[c] = "idle") =>
          LET done == Cardinality(KindIdx("ret"))
          IN  /\ done = Cardinality(KindIdx("lock"))
              /\ Cardinality(KindIdx("set")) = SumChainLen(done)
    /\ machine = "ok" =>
          current = IF KindIdx("set") = {} THEN defs[1].Index
                    ELSE log[CHOOSE k \in KindIdx("set") : \A j \in KindIdx("set") : j <= k].cur

\* two calls by different callers have both returned, each after a chain of
\* two outcomes or more
C9_Witness ==
    /\ \A c \in Callers : pc[c] = "idle"
    /\ Cardinality(KindIdx("ret")) = 2
    /\ LockOf(1).caller # LockOf(2).caller
    /\ Len(ActsOf(1)) >= 2
    /\ Len(ActsOf(2)) >= 2
    /\ Cardinality(KindIdx("set")) = Len(ActsOf(1)) + Len(ActsOf(2))

\* ------------------------------------------------------------------ C10
\* the targets the cursor was assigned by call id, in order
SetsOf(id) == SelectSeq(log, LAMBDA e : e.call = id /\ e.kind = "set")

\* TestChain's table
TestChainDefs ==
    <<[Index |-> test_state_1, Outcomes |-> ChainOutcomes1],
      [Index |-> test_state_2, Outcomes |-> ChainOutcomes2]>>

\* C10: a Spin call that returns nil has run its whole chain: the first
\* action is the one of the call's input in the state the call found, each
\* later action is the one of the input the previous action returned, looked
\* up in the state the previous step moved to, the last action returned
\* NO_INPUT, every action ran once on the context in that order, and the
\* cursor was assigned every target in turn. TestChain's chain from state 1
\* on input 1 runs three actions through states 2, 1, 3.
C10_WholeChainRuns ==
    \A id \in CallIds :
        (HasRet(id) /\ RetOf(id).err = NoError) =>
            LET acts == ActsOf(id)
                sets == SetsOf(id)
                m == Len(acts)
            IN  /\ Len(sets) = m
                /\ m = 0 => LockOf(id).input = NO_INPUT
                /\ m > 0 =>
                      /\ acts[1].cur = LockOf(id).cur
                      /\ acts[1].input = LockOf(id).input
                      /\ NextInput(acts[m].outcome.Action) = NO_INPUT
                      /\ RetOf(id).cur = acts[m].outcome.State
                /\ \A j \in 1..m :
                      /\ acts[j].input # NO_INPUT
                      /\ acts[j].outcome = states[acts[j].cur].Outcomes[acts[j].input]
                      /\ sets[j].cur = acts[j].outcome.State
                /\ \A j \in 2..m :
                      /\ acts[j].cur = acts[j - 1].outcome.State
                      /\ acts[j].input = NextInput(acts[j - 1].outcome.Action)
                /\ RetOf(id).ctx = RunActions(acts, 1, <<>>)
                /\ (/\ defs = TestChainDefs
                    /\ LockOf(id).cur = test_state_1
                    /\ LockOf(id).input = test_input_1) =>
                      /\ RetOf(id).ctx = <<"emit2", "emit2", "emitNone">>
                      /\ sets = <<[kind |-> "set", call |-> id, cur |-> test_state_2],
                                  [kind |-> "set", call |-> id, cur |-> test_state_1],
                                  [kind |-> "set", call |-> id, cur |-> test_state_3]>>

\* TestChain: one Spin with input 1 from state 1 has run three actions and
\* left the machine in state 3
C10_Witness ==
    /\ defs = TestChainDefs
    /\ HasRet(1)
    /\ LockOf(1).input = test_input_1
    /\ RetOf(1).err = NoError
    /\ Len(ActsOf(1)) = 3
    /\ current = test_state_3

\* the two-step chain: input 1 moves to the second state and chains input 2,
\* which ends the chain back in the state the call started in
C10_WitnessRoundTrip ==
    \E id \in CallIds :
        /\ HasRet(id)
        /\ RetOf(id).err = NoError
        /\ Len(ActsOf(id)) = 2
        /\ RetOf(id).cur = LockOf(id).cur
        /\ ActsOf(id)[1].outcome.State # LockOf(id).cur
        /\ RetOf(id).ctx = <<"emit2", "emitNone">>

\* ------------------------------------------------------------------ C11
WalkIds == 1..MaxWalk

AllNoAction(tbl) ==
    \A s \in DOMAIN tbl : \A inp \in DOMAIN tbl[s].Outcomes :
        tbl[s].Outcomes[inp].Action = "NO_ACTION"

\* call id found the cursor in a state that has an outcome for its input
Accepted(id) ==
    /\ LockOf(id).cur \in DOMAIN states
    /\ LockOf(id).input \in DOMAIN states[LockOf(id).cur].Outcomes

\* call id made exactly one transition, to the target of its input's outcome
OneTransition(id) ==
    /\ RetOf(id).err = NoError
    /\ Len(ActsOf(id)) = 1
    /\ Len(SetsOf(id)) = 1
    /\ RetOf(id).cur = states[LockOf(id).cur].Outcomes[LockOf(id).input].State
    /\ RetOf(id).ctx = <<>>

\* TestStates' inputs and the states it expects after each
TestStatesInputs ==
    <<test_input_1, test_input_3, test_input_2, test_input_1, test_input_2, test_input_3>>

TestStatesVisits ==
    <<test_state_2, test_state_1, test_state_3, test_state_2, test_state_1, test_state_1>>

\* the first calls of the history are TestStates' six calls, all returned
TestStatesRan ==
    /\ defs = TestStatesDefs
    /\ \A id \in 1..Len(TestStatesInputs) :
          HasRet(id) /\ LockOf(id).input = TestStatesInputs[id]

TestStatesExample ==
    TestStatesRan =>
        \A id \in 1..Len(TestStatesInputs) :
            RetOf(id).err = NoError /\ RetOf(id).cur = TestStatesVisits[id]

\* C11 as stated: in a machine whose outcomes all use NO_ACTION, every
\* Spin(i) with i accepted by the current state returns nil after exactly
\* one transition, to Outcomes[i].State; TestStates' six calls visit states
\* 2, 1, 3, 2, 1, 1.
C11_AnyAcceptedInputOneTransition ==
    /\ \A id \in WalkIds :
          (HasRet(id) /\ AllNoAction(states) /\ Accepted(id)) => OneTransition(id)
    /\ TestStatesExample

\* C11 amended: in a machine whose outcomes all use NO_ACTION, every Spin(i)
\* with i other than NO_INPUT and accepted by the current state returns nil
\* after exactly one transition, to Outcomes[i].State (a self-loop leaves the
\* cursor where it was); TestStates' six calls visit states 2, 1, 3, 2, 1, 1.
C11_OneTransitionPerSpin ==
    /\ \A id \in WalkIds :
          (/\ HasRet(id)
           /\ AllNoAction(states)
           /\ Accepted(id)
           /\ LockOf(id).input # NO_INPUT) => OneTransition(id)
    /\ TestStatesExample

\* TestStates has run to its end: the sixth call, a self-loop, left state 1
C11_Witness ==
    /\ TestStatesRan
    /\ current = test_state_1
    /\ LockOf(6).cur = test_state_1
    /\ Len(ActsOf(6)) = 1
    /\ LockOf(3).cur = test_state_1 /\ RetOf(3).cur = test_state_3

\* ------------------------------------------------------------------ C12
\* C12: Define on a non-empty list of states with pairwise distinct Index
\* returns a nil error and a machine whose table has exactly the supplied
\* Index values as keys, each mapped to its state, and whose cursor is the
\* Index of the first state of the list.
C12_DefineBuildsTable ==
    (machine # "none" /\ Len(defs) > 0 /\ Clashes(defs) = {}) =>
        /\ machine = "ok"
        /\ defErr = NoError
        /\ DOMAIN states = {defs[k].Index : k \in 1..Len(defs)}
        /\ \A k \in 1..Len(defs) : states[defs[k].Index] = defs[k]
        /\ current = defs[1].Index

\* Define accepted three states given in an order that is not the order of
\* their Index, the first of them with the largest Index
C12_Witness ==
    /\ machine = "ok"
    /\ Len(defs) = 3
    /\ defs[1].Index = test_state_3
    /\ defs[2].Index = test_state_1
    /\ defs[3].Index = test_state_2
    /\ defs[1].Outcomes # defs[2].Outcomes
    /\ current = test_state_3
    /\ states[test_state_2] = defs[3]

\* ------------------------------------------------------------------ C13
\* C13: once an action has called Spin from inside a running chain, the
\* inner call waits for the lock its own goroutine holds: nothing more ever
\* happens on the machine. The outer call does not return, the mutex stays
\* locked, the cursor stays where it was, and no call takes the lock again.
C13_ReentrantSpinDeadlocks ==
    \A k \in KindIdx("reenter") :
        LET id == log[k].call
            c == LockOf(id).caller
        IN  /\ k = Len(log)
            /\ pc[c] = "lock"
            /\ locked
            /\ ~HasRet(id)
            /\ current = log[k].cur
            /\ \A d \in Callers : pc[d] \in {"idle", "lock"}

\* an action reached after one step of a chain has called Spin, and the
\* other goroutine's Spin call is waiting for the lock
C13_Witness ==
    \E k \in KindIdx("reenter") :
        /\ Len(ActsOf(log[k].call)) = 1
        /\ \A d \in Callers : pc[d] = "lock"
        /\ calls = MaxCalls

\* ------------------------------------------------------------------ C14
\* the chain from cursor cur on input inp comes back to a (state, input)
\* pair it has already been through: it never returns NO_INPUT
RECURSIVE Cycles(_, _, _, _)
Cycles(tbl, cur, inp, seen) ==
    IF inp = NO_INPUT \/ cur \notin DOMAIN tbl THEN FALSE
    ELSE IF inp \notin DOMAIN tbl[cur].Outcomes THEN FALSE
    ELSE IF <<cur, inp>> \in seen THEN TRUE
    ELSE LET out == tbl[cur].Outcomes[inp]
         IN  Cycles(tbl, out.State, NextInput(out.Action), seen \cup {<<cur, inp>>})

CyclicCall(id) ==
    HasLock(id) /\ Cycles(states, LockOf(id).cur, LockOf(id).input, {})

\* C14: a Spin call whose chain enters a cycle that never returns NO_INPUT
\* never returns and never releases the lock: it is still inside the loop
\* however many steps it has made, and no other call takes the lock or makes
\* a transition after it.
C14_CycleHoldsLockForever ==
    \A id \in CallIds :
        CyclicCall(id) =>
            /\ ~HasRet(id)
            /\ locked
            /\ pc[LockOf(id).caller] \in {"loop", "assign"}
            /\ callId[LockOf(id).caller] = id
            /\ \A k \in LogIdx : log[k].call <= id
            /\ \A d \in Callers \ {LockOf(id).caller} : pc[d] \in {"idle", "lock"}

\* in a table of two states a call that started in state 2 has entered the
\* cycle of state 1, has made as many steps as the table has (state, input)
\* pairs and is still in its loop, while the other goroutine waits for the lock
C14_Witness ==
    \E id \in CallIds :
        /\ CyclicCall(id)
        /\ Cardinality(DOMAIN states) = 2
        /\ LockOf(id).cur = test_state_2
        /\ current = test_state_1
        /\ n[LockOf(id).caller] = ChainCap
        /\ \E d \in Callers : pc[d] = "lock"

\* ------------------------------------------------------------------ C15
\* the context of call id before its j-th action ran
ContextBefore(id, j) == RunActions(SubSeq(ActsOf(id), 1, j - 1), 1, LockOf(id).ctx)

\* C15: NO_ACTION returns the context it was given, unchanged, and NO_INPUT:
\* an outcome that uses NO_ACTION is the last of its chain, the call returns
\* nil right after that one state change with the context the action was
\* given, and a context that went through NO_ACTION goes through it again
\* unchanged.
C15_NoActionIsIdentity ==
    /\ \A id \in CallIds :
          HasLock(id) =>
              \A j \in 1..Len(ActsOf(id)) :
                  ActsOf(id)[j].outcome.Action = "NO_ACTION" =>
                      /\ j = Len(ActsOf(id))
                      /\ Len(SetsOf(id)) <= j
                      /\ HasRet(id) =>
                            /\ RetOf(id).err = NoError
                            /\ RetOf(id).ctx = ContextBefore(id, j)
                            /\ RetOf(id).cur = ActsOf(id)[j].outcome.State
                            /\ Len(SetsOf(id)) = j
    /\ \A c \in Callers :
          (pc[c] = "assign" /\ do[c].Action = "NO_ACTION") =>
              /\ i[c] = NO_INPUT
              /\ ctx[c] = ContextBefore(callId[c], Len(ActsOf(callId[c])))

\* two calls in a row ended in NO_ACTION, the second on the context the
\* first returned, a context that carries two marks
C15_Witness ==
    /\ HasRet(1) /\ HasRet(2)
    /\ Len(ActsOf(1)) = 1 /\ Len(ActsOf(2)) = 1
    /\ ActsOf(1)[1].outcome.Action = "NO_ACTION"
    /\ ActsOf(2)[1].outcome.Action = "NO_ACTION"
    /\ Len(RetOf(1).ctx) = 2
    /\ LockOf(2).ctx = RetOf(1).ctx
    /\ RetOf(2).ctx = RetOf(1).ctx

\* ------------------------------------------------------------------ C16
\* C16: in each step of the loop the action runs before the cursor moves.
\* When the action has returned and the cursor is not yet assigned, the
\* cursor is still the state whose outcome was matched; the assignment that
\* follows sets it to that outcome's target, whatever input the action
\* returned.
C16_ActionBeforeAssignment ==
    /\ \A c \in Callers :
          pc[c] = "assign" =>
              LET e == log[Len(log)]
              IN  /\ e.kind = "act"
                  /\ e.call = callId[c]
                  /\ e.cur = current
                  /\ current \in DOMAIN states
                  /\ do[c] = states[current].Outcomes[e.input]
                  /\ i[c] = NextInput(do[c].Action)
    /\ \A k \in KindIdx("set") :
          /\ log[k - 1].kind = "act"
          /\ log[k].cur = log[k - 1].outcome.State
          /\ log[k - 1].outcome = states[log[k - 1].cur].Outcomes[log[k - 1].input]
    /\ \A c \in Callers :
          (pc[c] = "loop" /\ n[c] > 0) => current = do[c].State

\* in the second step of a chain the action has returned a follow-up input
\* and the cursor, not yet assigned, is still the source state
C16_Witness ==
    \E c \in Callers :
        /\ pc[c] = "assign"
        /\ n[c] = 1
        /\ i[c] # NO_INPUT
        /\ do[c].State # current

\* the target was applied although the input the action returned is one the
\* target state does not accept
C16_WitnessRejected ==
    \E id \in CallIds :
        /\ HasRet(id)
        /\ RetOf(id).err.type = "InvalidInputError"
        /\ Len(SetsOf(id)) = 1
        /\ current = ActsOf(id)[1].outcome.State
        /\ current # LockOf(id).cur

\* ------------------------------------------------------------------ C17
\* C17: Spin never changes the transition table.  Once Define has built
\* the machine, the table is the one built from the definitions, with the
\* same keys and the same outcome maps, at every point of every call and
\* after every return, successful or not; only the cursor moves.
C17_TableIsReadOnly ==
    machine = "ok" =>
        /\ states = DefineLoop(defs, 1, EmptyMap).stateMap
        /\ DOMAIN states = {defs[k].Index : k \in 1..Len(defs)}
        /\ \A k \in 1..Len(defs) : states[defs[k].Index] = defs[k]

\* two calls have returned, one of them with an error, and the cursor has
\* left the initial state
C17_Witness ==
    /\ machine = "ok"
    /\ \A id \in 1..2 : HasRet(id)
    /\ \E id \in 1..2 : RetOf(id).err # NoError
    /\ \E id \in 1..2 : Len(SetsOf(id)) >= 2
    /\ current # defs[1].Index

\* ------------------------------------------------------------------ C18
\* C18: a call Spin(ctx, NO_INPUT) executes no transition.  It runs no
\* action and assigns nothing, fails no lookup, and returns the caller's
\* context with a nil error and the cursor it found, also when the cursor
\* is not a key of the table and also when the current state's outcome map
\* has an entry keyed NO_INPUT.
C18_SentinelInputDoesNothing ==
    /\ \A id \in CallIds :
          (HasLock(id) /\ LockOf(id).input = NO_INPUT) =>
              /\ Len(ActsOf(id)) = 0
              /\ Len(SetsOf(id)) = 0
              /\ HasRet(id) =>
                    /\ RetOf(id).err = NoError
                    /\ RetOf(id).ctx = LockOf(id).ctx
                    /\ RetOf(id).cur = LockOf(id).cur
    /\ \A c \in Callers :
          (pc[c] = "loop" /\ in[c] = NO_INPUT) =>
              /\ n[c] = 0
              /\ i[c] = NO_INPUT
              /\ current = LockOf(callId[c]).cur

\* one call with NO_INPUT has returned from a state whose map has an entry
\* keyed NO_INPUT, and another from a cursor that is not a key of the table
C18_Witness ==
    /\ \A id \in 1..2 : HasRet(id) /\ LockOf(id).input = NO_INPUT
    /\ LockOf(1).cur \in DOMAIN states
    /\ NO_INPUT \in DOMAIN states[LockOf(1).cur].Outcomes
    /\ LockOf(2).cur \notin DOMAIN states

\* ------------------------------------------------------------------ C19
\* C19: Define does not check outcome targets, and the table alone decides
\* whether the cursor can leave it.  Define accepts every non-empty list
\* without a clash, closed or not.  If every outcome's target is a key, the
\* cursor is a key at every lock, after every assignment and at every
\* return, and no call returns ImpossibleStateError.  If an applied outcome's
\* target is not a key, the cursor is outside the table from then on, and
\* the next input other than NO_INPUT, in the same chain or in a later call,
\* fails with ImpossibleStateError naming the cursor.
C19_ClosureDecidesImpossibleState ==
    /\ (machine # "none" /\ Len(defs) > 0 /\ DefineLoop(defs, 1, EmptyMap).ok)
          => machine = "ok"
    /\ (machine = "ok" /\ TargetsDefined(states)) =>
          /\ current \in DOMAIN states
          /\ \A k \in LogIdx : log[k].kind \in {"lock", "set", "ret"}
                                  => log[k].cur \in DOMAIN states
          /\ \A id \in CallIds :
                HasRet(id) => RetOf(id).err.type # "ImpossibleStateError"
    /\ machine = "ok" =>
          /\ \A k \in KindIdx("set") :
                log[k].cur \notin DOMAIN states =>
                    /\ current = log[k].cur
                    /\ \A m \in LogIdx : m > k => log[m].kind \notin {"act", "set"}
          /\ \A id \in CallIds :
                (HasRet(id) /\ Len(SetsOf(id)) > 0) =>
                    LET last == SetsOf(id)[Len(SetsOf(id))].cur
                        inp == NextInput(ActsOf(id)[Len(ActsOf(id))].outcome.Action)
                    IN  (last \notin DOMAIN states /\ inp # NO_INPUT)
                            => RetOf(id).err = ImpossibleStateError(last)
          /\ \A id \in CallIds :
                (HasRet(id) /\ LockOf(id).cur \notin DOMAIN states
                            /\ LockOf(id).input # NO_INPUT)
                    => /\ RetOf(id).err = ImpossibleStateError(LockOf(id).cur)
                       /\ Len(ActsOf(id)) = 0

\* a call ended normally on an outcome whose target is not a key, and the
\* next call, with an input other than NO_INPUT, failed with
\* ImpossibleStateError
C19_Witness ==
    /\ machine = "ok"
    /\ ~TargetsDefined(states)
    /\ HasRet(1) /\ HasRet(2)
    /\ RetOf(1).err = NoError
    /\ Len(SetsOf(1)) >= 1
    /\ RetOf(1).cur \notin DOMAIN states
    /\ LockOf(2).input # NO_INPUT
    /\ RetOf(2).err = ImpossibleStateError(RetOf(1).cur)

\* the action of the outcome that left the table returned an input, and the
\* same call failed with ImpossibleStateError
C19_WitnessSameChain ==
    \E id \in CallIds :
        /\ HasRet(id)
        /\ LockOf(id).cur \in DOMAIN states
        /\ Len(SetsOf(id)) >= 1
        /\ RetOf(id).err.type = "ImpossibleStateError"

\* in a table of two states in which every target is a key, two calls have
\* returned and moved the cursor
C19_WitnessClosed ==
    /\ machine = "ok"
    /\ TargetsDefined(states)
    /\ Cardinality(DOMAIN states) = 2
    /\ HasRet(1) /\ HasRet(2)
    /\ Len(SetsOf(1)) >= 1 /\ Len(SetsOf(2)) >= 1
    /\ RetOf(1).cur # RetOf(2).cur

\* ------------------------------------------------------------------ C20
\* C20: Define with an empty list returns neither a machine nor a
\* ClashingStateError: no clash is found, the read of states[0] is out of
\* range and the call aborts, leaving no table and no cursor.
C20_EmptyDefineAborts ==
    (machine # "none" /\ Len(defs) = 0) =>
        /\ machine = "panic"
        /\ machine \notin {"ok", "clash"}
        /\ defErr = NoError
        /\ states = EmptyMap
        /\ DefineLoop(defs, 1, EmptyMap).ok

\* Define has been called with the empty list
C20_Witness ==
    /\ Len(defs) = 0
    /\ machine = "panic"

====
